---- MODULE Spec2Model ----
(***************************************************************************)
(* The swingset runner of discord-ses-bot (src/unnamed/part_000): the      *)
(* block/batch drain loops (runBlock, runBatch), the inbound message       *)
(* bridge (handleMessage, doOutboundBridge) and the crank counter.         *)
(*                                                                         *)
(* JavaScript runs one continuation at a time, so every action below is    *)
(* one run-to-completion stretch of code between two awaits.  Several      *)
(* handleMessage calls may be suspended at awaits at the same time.        *)
(***************************************************************************)
EXTENDS Integers, Sequences, FiniteSets, TLC

(* ------------------------------ bounds -------------------------------- *)
MaxCalls == 2
MaxBlockSize == 2
MaxQueue == 3
MaxBoot == 1
MaxUnits == 5
MaxRestarts == 1
MaxWork == 2
MaxStepLimit == 3
MaxOutbound == 2
MaxStepped == 2
MaxCeiling == 3
MaxRounds == 2
MaxObjects == 3

(* ------------------------- program constants -------------------------- *)
\* let blockSize = 200
DefaultBlockSize == 200

Main == 0
Calls == 1..MaxCalls
Procs == 0..MaxCalls
\* ids 0..MaxCalls-1 can be issued by MaxCalls calls; MaxCalls never is
Ids == 0..MaxCalls
NoEntry == 0
\* a deferred nobody resolved yet
Pending == <<>>
\* The n-th value the bridge device passes for msgId.  The runner never looks
\* into a value, so values that are all different stand for any values.
OutValue(msgId, n) == <<msgId, n>>
\* --blocksize N (usage text); the runner is built with DefaultBlockSize
BlockSizes == (1..MaxBlockSize) \cup {DefaultBlockSize}

VARIABLES
  blockSize,               \* let blockSize
  blockMode,               \* let blockMode
  forceReset,              \* let forceReset
  kernel,                  \* store.storage as the kernel works on it: its run
                           \* queue length and its 'crankNumber' key
  durable,                 \* store.storage as of the last store.commit()
  crankNumber,             \* let crankNumber
  messageCount,            \* let messageCount
  messageResponsePromises, \* msgId -> the call whose deferred is registered
  deferred,                \* per call: Pending or the value it resolved with
  frame,                   \* per process: position and locals of its async fns
  messageId,               \* per call: const messageId
  result,                  \* per call: the value its promise fulfilled with
  \* history (not program state)
  lastStepper,             \* the process that called controller.step() last
  interleaved,             \* some process called step() again after another
                           \* process had called step() since its previous call
  reported,                \* sum of the units reported by step() to its awaiter
  blocksDone,              \* sum of the values returned by finished runBlock calls
  commits,                 \* number of store.commit() calls
  outCount,                \* per id: number of doOutboundBridge(id, value) calls
  warned,                  \* per id: number of 'outbound missing msg id' warnings
  resolveCalls,            \* per id: number of deferred.resolve(value) calls
  initQueue,               \* run queue length when the process started
  limitArg,                \* the stepLimit argument of the direct runBatch call
  ceilingArg,              \* the requestedSteps argument of the direct runBlock call
  commitArg,               \* the doCommit argument of the direct call
  stepVals,                \* the values step() returned to the direct runBlock call
  restarts,                \* number of process restarts
  thrown,                  \* controller.step() or store.commit() has thrown
  bench,                   \* runBenchmark: its argument, its locals and what it
                           \* sampled, queued and logged
  replay,                  \* replayPastFromDisk: the lines of the log file and
                           \* its position in them
  sealers                  \* the sealers made by makeSealer: their unsealMap,
                           \* the objects allocated and the calls made

config == <<blockSize, blockMode, forceReset>>
stepHist == <<lastStepper, interleaved>>
bridge == <<messageCount, messageResponsePromises, deferred, messageId, result>>
outHist == <<outCount, warned, resolveCalls>>
args == <<initQueue, limitArg, ceilingArg, commitArg, stepVals>>
ext == <<replay, sealers>>
aux == <<restarts, thrown, bench, ext>>
vars == <<config, kernel, durable, crankNumber, bridge, frame, stepHist,
          reported, blocksDone, commits, outHist, args, aux>>

\* runBenchmark before it is called.  status: per queued call, what
\* controller.kpStatus says of its result promise; log: per finished round,
\* the status runBenchmark logged for it.
NoBench ==
  [rounds |-> 0, i |-> 0, totalSteps |-> 0, cranksPre |-> 0, cranksPost |-> 0,
   samplesPre |-> 0, samplesPost |-> 0, status |-> <<>>, log |-> <<>>]

\* JavaScript values: an object is its reference, a positive number (two
\* objects are the same value only if they are the same object); values that
\* are no objects are zero and below.
Undefined == 0
Primitives == {Undefined, 0 - 1, 0 - 2}
Labels == {0 - 1, 0 - 2}
\* the sealers made by two calls of makeSealer(): one and another
Sealers == {1, 2}

\* replayPastFromDisk before it is called: no line read, no entry handled
NoReplay == [pc |-> "idle", lines |-> <<>>, i |-> 0]

\* no sealer has sealed anything, no object is allocated
NoSealers ==
  [unsealMap |-> [s \in Sealers |-> <<>>], objects |-> 0, calls |-> <<>>,
   last |-> <<>>]

(* --------------------------- frames ----------------------------------- *)
\* pc: idle | start | awaitDeliver | awaitStep | stepDone | awaitBlock |
\*     awaitBatch | awaitDeferred | done | failed
NoFrame ==
  [pc |-> "idle", stepLimit |-> 0, doCommit |-> FALSE, runAll |-> FALSE,
   totalSteps |-> 0, steps |-> 0, requestedSteps |-> 0, actualSteps |-> 0,
   stepped |-> 0]

\* runBlock after its loop: the block is over and returns actualSteps
BlockEnd(f) == [f EXCEPT !.pc = "awaitBlock", !.steps = f.actualSteps]

\* requestedSteps -= 1; await controller.step()
StepInvoke(f) == [f EXCEPT !.requestedSteps = @ - 1, !.pc = "awaitStep"]

\* while (requestedSteps > 0) { ... }
BlockLoop(f) == IF f.requestedSteps > 0 THEN StepInvoke(f) ELSE BlockEnd(f)

\* runBlock(requestedSteps, doCommit) up to its first await
RunBlock(f, requested, commit) ==
  BlockLoop([f EXCEPT !.requestedSteps = requested, !.doCommit = commit,
                      !.actualSteps = 0])

\* runBatch(stepLimit, doCommit) up to its first await
RunBatch(f, limit, commit) ==
  RunBlock([f EXCEPT !.stepLimit = limit, !.runAll = (limit = 0),
                     !.totalSteps = 0], blockSize, commit)

\* mutant: crankNumber = stepped
SetStepped(crank, stepped) == stepped

\* crankNumber += stepped
AddStepped(crank, stepped) == crank + stepped

\* mutant: the loop does not break when step() reports no unit
AfterStepNoBreak(f) == BlockLoop([f EXCEPT !.actualSteps = @ + f.stepped])

\* mutant: a step that reports no unit is tried again
AfterStepAgain(f) ==
  IF f.stepped < 1
    THEN [f EXCEPT !.pc = "awaitStep"]
    ELSE BlockLoop([f EXCEPT !.actualSteps = @ + f.stepped])

\* the rest of the loop body once step() has settled
AfterStep(f) ==
  IF f.stepped < 1
    THEN BlockEnd(f)
    ELSE BlockLoop([f EXCEPT !.actualSteps = @ + f.stepped])

\* mutant: steps > blockSize
BatchContinuesStrict(runAll, limit, steps) ==
  (runAll \/ limit > 0) /\ steps > blockSize

\* mutant: stepLimit >= 0
BatchContinuesAtZero(runAll, limit, steps) ==
  (runAll \/ limit >= 0) /\ steps >= blockSize

\* mutant: the remaining limit is not looked at
BatchContinuesNoLimit(runAll, limit, steps) == steps >= blockSize

\* } while ((runAll || stepLimit > 0) && steps >= blockSize)
BatchContinues(runAll, limit, steps) ==
  (runAll \/ limit > 0) /\ steps >= blockSize

\* runBatch once runBlock has returned
AfterBlock(f) ==
  LET g == [f EXCEPT !.totalSteps = @ + f.steps, !.stepLimit = @ - f.steps]
  IN IF BatchContinues(g.runAll, g.stepLimit, g.steps)
       THEN RunBlock(g, blockSize, g.doCommit)
       ELSE [g EXCEPT !.pc = "awaitBatch"]

\* mutant: store.commit() inside the loop, after every step
CommitsEachStep(g) == g.doCommit

\* mutant: store.commit() whatever doCommit says
CommitsAlways(g) == g.pc = "awaitBlock"

\* mutant: store.commit() is never called
CommitsNever(g) == FALSE

\* if (doCommit) { store.commit() }, after the loop of runBlock: whether the
\* stretch of code that ends in frame g called store.commit()
Commits(g) == g.pc = "awaitBlock" /\ g.doCommit

NoProc == 0 - 1
\* process p has called controller.step() in this process lifetime
HasStepped(p) ==
  frame[p].pc \in {"awaitStep", "stepDone", "awaitBlock", "awaitBatch",
                   "awaitDeferred", "done"}

\* What a stretch of code that leaves process p in frame g did on the way:
\* a step() call when it stopped at the await of line 482, a finished block
\* (with its store.commit() when doCommit) when it stopped at line 541.
Moves(p, g) ==
  /\ frame' = [frame EXCEPT ![p] = g]
  /\ lastStepper' = IF g.pc = "awaitStep" THEN p ELSE lastStepper
  /\ interleaved' = \/ interleaved
                    \/ g.pc = "awaitStep" /\ HasStepped(p) /\ lastStepper # p
  /\ blocksDone' = IF g.pc = "awaitBlock" THEN blocksDone + g.steps ELSE blocksDone
  /\ commits' = IF Commits(g) THEN commits + 1 ELSE commits
  /\ durable' = IF Commits(g) THEN kernel ELSE durable

(* --------------------------- the engine ------------------------------- *)
\* mutant: the entry of the first message, whatever msgId is
LookupFirst(map, msgId) == map[0]

\* mutant: an id without entry falls back to the entry of the first message
LookupOrFirst(map, msgId) == IF map[msgId] = NoEntry THEN map[0] ELSE map[msgId]

\* messageResponsePromises[msgId]
Lookup(map, msgId) == map[msgId]

\* deferred.resolve(value): a promise keeps the first value it is resolved with
Resolve(d, value) == IF d = Pending THEN value ELSE d

\* doOutboundBridge(msgId, value), called by the bridge device during a crank
doOutboundBridge(msgId, value) ==
  LET c == Lookup(messageResponsePromises, msgId)
  IN /\ outCount' = [outCount EXCEPT ![msgId] = @ + 1]
     /\ IF c = NoEntry
          THEN /\ warned' = [warned EXCEPT ![msgId] = @ + 1]
               /\ UNCHANGED <<deferred, resolveCalls>>
          ELSE /\ deferred' = [deferred EXCEPT ![c] = Resolve(@, value)]
               /\ resolveCalls' = [resolveCalls EXCEPT ![msgId] = @ + 1]
               /\ UNCHANGED warned

RECURSIVE SumUpTo(_, _)
\* f[0] + ... + f[n]
SumUpTo(f, n) == IF n < 0 THEN 0 ELSE f[n] + SumUpTo(f, n - 1)

\* number of outbound calls the bridge device has made so far
OutboundCount == SumUpTo(outCount, MaxCalls)

\* controller.step(): the kernel runs one crank and reports 1, or reports 0
\* when its run queue is empty.  The crank may call the bridge device's
\* outbound side once.
EngineStep(p) ==
  /\ frame[p].pc = "awaitStep"
  /\ IF kernel.runQueue > 0
       THEN /\ kernel' = [runQueue |-> kernel.runQueue - 1,
                          crankNumber |-> kernel.crankNumber + 1]
            /\ frame' = [frame EXCEPT ![p].pc = "stepDone", ![p].stepped = 1]
            /\ \/ UNCHANGED <<deferred, outHist>>
               \/ /\ OutboundCount < MaxOutbound
                  /\ \E msgId \in Ids :
                       doOutboundBridge(msgId,
                                        OutValue(msgId, outCount[msgId] + 1))
       ELSE /\ frame' = [frame EXCEPT ![p].pc = "stepDone", ![p].stepped = 0]
            /\ UNCHANGED <<kernel, deferred, outHist>>
  /\ UNCHANGED <<config, durable, crankNumber, messageCount,
                 messageResponsePromises, messageId, result, stepHist, reported,
                 blocksDone, commits, args, aux>>

(* ------------------------ runBlock and runBatch ----------------------- *)
\* runBlock resumes after `await controller.step()` and runs to its next await
StepReturn(p) ==
  /\ frame[p].pc = "stepDone"
  /\ reported' = reported + frame[p].stepped
  /\ crankNumber' = IF frame[p].stepped < 1
                      THEN crankNumber
                      ELSE AddStepped(crankNumber, frame[p].stepped)
  /\ Moves(p, AfterStep(frame[p]))
  /\ UNCHANGED <<config, kernel, bridge, outHist, args, aux>>

\* runBatch resumes after `await runBlock(...)` and runs to its next await
BlockReturn(p) ==
  /\ frame[p].pc = "awaitBlock"
  /\ Moves(p, AfterBlock(frame[p]))
  /\ UNCHANGED <<config, kernel, crankNumber, bridge, reported, outHist, args,
                 aux>>

(* -------------------------- the runner -------------------------------- *)
\* createSwingsetRunner: await runBatch(0, blockMode)
InitialDrain ==
  /\ frame[Main].pc = "start"
  /\ Moves(Main, RunBatch(frame[Main], 0, blockMode))
  /\ UNCHANGED <<config, kernel, crankNumber, bridge, reported, outHist, args,
                 aux>>

\* createSwingsetRunner returns the api once the initial drain is over
ReturnApi ==
  /\ frame[Main].pc = "awaitBatch"
  /\ frame' = [frame EXCEPT ![Main].pc = "done"]
  /\ UNCHANGED <<config, kernel, durable, crankNumber, bridge, stepHist,
                 reported, blocksDone, commits, outHist, args, aux>>

Started == {c \in Calls : frame[c].pc # "idle"}

\* mutant: messageCount is not incremented
SameMessageCount(n) == n

\* messageCount++
NextMessageCount(n) == n + 1

\* mutant: the deferred is not in the mapping when the message is delivered
RegisterNever(map, msgId, c) == map

\* messageResponsePromises[messageId] = deferred
Register(map, msgId, c) == [map EXCEPT ![msgId] = c]

\* handleMessage up to `await devices.bridge.deliverInbound(messageId, ...args)`;
\* the delivery queues work cranks on the kernel.  Calls are numbered in the
\* order they are made.
StartMessage(c) ==
  /\ frame[Main].pc = "done"
  /\ frame[c].pc = "idle"
  /\ c = Cardinality(Started) + 1
  /\ messageId' = [messageId EXCEPT ![c] = messageCount]
  /\ messageCount' = NextMessageCount(messageCount)
  /\ deferred' = [deferred EXCEPT ![c] = Pending]
  /\ messageResponsePromises' =
       Register(messageResponsePromises, messageCount, c)
  /\ \E work \in 1..MaxWork :
       /\ kernel.runQueue + work <= MaxQueue
       /\ kernel' = [kernel EXCEPT !.runQueue = @ + work]
  /\ frame' = [frame EXCEPT ![c].pc = "awaitDeliver"]
  /\ UNCHANGED <<config, durable, crankNumber, result, stepHist, reported,
                 blocksDone, commits, outHist, args>>

HandleMessage(c) == StartMessage(c) /\ UNCHANGED aux

\* handleMessage resumes after the delivery: await runBatch(0, blockMode)
Delivered(c) ==
  /\ frame[c].pc = "awaitDeliver"
  /\ Moves(c, RunBatch(frame[c], 0, blockMode))
  /\ UNCHANGED <<config, kernel, crankNumber, bridge, reported, outHist, args,
                 aux>>

\* handleMessage resumes after the drain: return deferred.promise
ReturnDeferred(c) ==
  /\ c \in Calls
  /\ frame[c].pc = "awaitBatch"
  /\ frame' = [frame EXCEPT ![c].pc = "awaitDeferred"]
  /\ UNCHANGED <<config, kernel, durable, crankNumber, bridge, stepHist,
                 reported, blocksDone, commits, outHist, args, aux>>

\* mutant: the promise settles whether or not the deferred is resolved
SettleAny(c) ==
  /\ frame[c].pc = "awaitDeferred"
  /\ result' = [result EXCEPT ![c] = deferred[c]]
  /\ frame' = [frame EXCEPT ![c].pc = "done"]
  /\ UNCHANGED <<config, kernel, durable, crankNumber, messageCount,
                 messageResponsePromises, deferred, messageId, stepHist,
                 reported, blocksDone, commits, outHist, args, aux>>

\* the promise handleMessage returned settles with its deferred's value
Settle(c) ==
  /\ frame[c].pc = "awaitDeferred"
  /\ deferred[c] # Pending
  /\ result' = [result EXCEPT ![c] = deferred[c]]
  /\ frame' = [frame EXCEPT ![c].pc = "done"]
  /\ UNCHANGED <<config, kernel, durable, crankNumber, messageCount,
                 messageResponsePromises, deferred, messageId, stepHist,
                 reported, blocksDone, commits, outHist, args, aux>>

(* ------------------- the runner with its message bridge --------------- *)
InitMemory ==
  /\ crankNumber = 0
  /\ messageCount = 0
  /\ messageResponsePromises = [i \in Ids |-> NoEntry]
  /\ deferred = [c \in Calls |-> Pending]
  /\ messageId = [c \in Calls |-> 0]
  /\ result = [c \in Calls |-> Pending]
  /\ frame = [p \in Procs |-> IF p = Main THEN [NoFrame EXCEPT !.pc = "start"]
                                          ELSE NoFrame]
  /\ lastStepper = NoProc
  /\ interleaved = FALSE
  /\ reported = 0
  /\ blocksDone = 0
  /\ commits = 0
  /\ outCount = [i \in Ids |-> 0]
  /\ warned = [i \in Ids |-> 0]
  /\ resolveCalls = [i \in Ids |-> 0]
  /\ restarts = 0
  /\ thrown = FALSE

\* The state at line 321: the store initialised, the kernel holding its
\* bootstrap cranks, nothing committed yet.  The runner is built with
\* blockMode = false.
Init ==
  /\ blockSize \in BlockSizes
  /\ blockMode = FALSE
  /\ forceReset = TRUE
  /\ initQueue \in 0..MaxBoot
  /\ kernel = [runQueue |-> initQueue, crankNumber |-> 0]
  /\ durable = [runQueue |-> 0, crankNumber |-> 0]
  /\ limitArg = 0
  /\ ceilingArg = 0
  /\ commitArg = blockMode
  /\ stepVals = <<>>
  /\ bench = NoBench
  /\ replay = NoReplay
  /\ sealers = NoSealers
  /\ InitMemory

Next ==
  \/ InitialDrain
  \/ ReturnApi
  \/ \E p \in Procs : EngineStep(p)
  \/ \E p \in Procs : StepReturn(p)
  \/ \E p \in Procs : BlockReturn(p)
  \/ \E c \in Calls : HandleMessage(c)
  \/ \E c \in Calls : Delivered(c)
  \/ \E c \in Calls : ReturnDeferred(c)
  \/ \E c \in Calls : Settle(c)

Spec == Init /\ [][Next]_vars

(* ---------------- runBatch called on its own (no new work) ------------ *)
\* runBatch(limitArg, commitArg), as commandRun and runBenchmark call it
CallRunBatch ==
  /\ frame[Main].pc = "start"
  /\ Moves(Main, RunBatch(frame[Main], limitArg, commitArg))
  /\ UNCHANGED <<config, kernel, crankNumber, bridge, reported, outHist, args,
                 aux>>

InitBatch ==
  /\ blockSize \in BlockSizes
  /\ blockMode = FALSE
  /\ forceReset = TRUE
  /\ initQueue \in 0..MaxUnits
  /\ kernel = [runQueue |-> initQueue, crankNumber |-> 0]
  /\ durable = [runQueue |-> 0, crankNumber |-> 0]
  /\ limitArg \in 0..MaxStepLimit
  /\ ceilingArg = 0
  /\ commitArg \in BOOLEAN
  /\ stepVals = <<>>
  /\ bench = NoBench
  /\ replay = NoReplay
  /\ sealers = NoSealers
  /\ InitMemory

NextBatch ==
  \/ CallRunBatch
  \/ EngineStep(Main)
  \/ StepReturn(Main)
  \/ BlockReturn(Main)

SpecBatch == InitBatch /\ [][NextBatch]_vars

\* Node runs every continuation that is ready, and a step() of an engine with
\* a finite queue settles: no enabled stretch of runBatch waits forever.
SpecBatchFair == SpecBatch /\ WF_vars(NextBatch)

(* ------------------------- process restart ---------------------------- *)
\* The process dies and createSwingsetRunner runs again up to line 321:
\* initSwingStore (forceReset) wipes the store and the swingset is
\* initialised anew, openSwingStore finds what the last commit left.
\* Everything in memory starts over: let crankNumber = 0.
Restart ==
  /\ restarts < MaxRestarts
  /\ restarts' = restarts + 1
  /\ IF forceReset
       THEN /\ kernel' = [runQueue |-> initQueue, crankNumber |-> 0]
            /\ durable' = [runQueue |-> 0, crankNumber |-> 0]
       ELSE /\ kernel' = durable
            /\ UNCHANGED durable
  /\ crankNumber' = 0
  /\ messageCount' = 0
  /\ messageResponsePromises' = [i \in Ids |-> NoEntry]
  /\ deferred' = [c \in Calls |-> Pending]
  /\ messageId' = [c \in Calls |-> 0]
  /\ result' = [c \in Calls |-> Pending]
  /\ frame' = [p \in Procs |-> IF p = Main THEN [NoFrame EXCEPT !.pc = "start"]
                                           ELSE NoFrame]
  /\ lastStepper' = NoProc
  /\ interleaved' = FALSE
  /\ reported' = 0
  /\ blocksDone' = 0
  /\ commits' = 0
  /\ outCount' = [i \in Ids |-> 0]
  /\ warned' = [i \in Ids |-> 0]
  /\ resolveCalls' = [i \in Ids |-> 0]
  /\ thrown' = FALSE
  /\ UNCHANGED <<config, args, bench, ext>>

InitRestart ==
  /\ blockSize \in BlockSizes
  /\ blockMode = FALSE
  /\ forceReset \in BOOLEAN
  /\ initQueue \in 0..MaxBoot
  /\ kernel = [runQueue |-> initQueue, crankNumber |-> 0]
  /\ durable = [runQueue |-> 0, crankNumber |-> 0]
  /\ limitArg = 0
  /\ ceilingArg = 0
  /\ commitArg \in BOOLEAN
  /\ stepVals = <<>>
  /\ bench = NoBench
  /\ replay = NoReplay
  /\ sealers = NoSealers
  /\ InitMemory

NextRestart ==
  \/ CallRunBatch
  \/ EngineStep(Main)
  \/ StepReturn(Main)
  \/ BlockReturn(Main)
  \/ Restart

SpecRestart == InitRestart /\ [][NextRestart]_vars

(* ------------- runBlock called on its own, any step values ------------ *)
\* runBlock(ceilingArg, commitArg), as the shell's block command calls it
CallRunBlock ==
  /\ frame[Main].pc = "start"
  /\ Moves(Main, RunBlock(frame[Main], ceilingArg, commitArg))
  /\ UNCHANGED <<config, kernel, crankNumber, bridge, reported, outHist, args,
                 aux>>

\* controller.step() settles with any number of units
StepAny ==
  /\ frame[Main].pc = "awaitStep"
  /\ \E units \in 0..MaxStepped :
       /\ frame' = [frame EXCEPT ![Main].pc = "stepDone", ![Main].stepped = units]
       /\ kernel' = [kernel EXCEPT !.crankNumber = @ + units]
       /\ stepVals' = Append(stepVals, units)
  /\ UNCHANGED <<config, durable, crankNumber, bridge, stepHist, reported,
                 blocksDone, commits, outHist, initQueue, limitArg, ceilingArg,
                 commitArg, aux>>

InitBlock ==
  /\ blockSize = DefaultBlockSize
  /\ blockMode = FALSE
  /\ forceReset = TRUE
  /\ initQueue = 0
  /\ kernel = [runQueue |-> 0, crankNumber |-> 0]
  /\ durable = [runQueue |-> 0, crankNumber |-> 0]
  /\ limitArg = 0
  /\ ceilingArg \in 0..MaxCeiling
  /\ commitArg \in BOOLEAN
  /\ stepVals = <<>>
  /\ bench = NoBench
  /\ replay = NoReplay
  /\ sealers = NoSealers
  /\ InitMemory

NextBlock ==
  \/ CallRunBlock
  \/ StepAny
  \/ StepReturn(Main)

SpecBlock == InitBlock /\ [][NextBlock]_vars

(* -------------- the runner when the engine or the store fails --------- *)
\* mutant: the exception is caught and the block ends as if the queue were empty
ThrowSwallowed(f) == BlockEnd(f)

\* An exception in runBlock: neither runBlock nor runBatch nor handleMessage
\* (nor createSwingsetRunner) has a try/catch, so the promise of each rejects
\* in turn and none of them runs any further code.
Throw(f) == [f EXCEPT !.pc = "failed"]

\* `await controller.step()` rejects
StepThrows(p) ==
  /\ frame[p].pc = "awaitStep"
  /\ frame' = [frame EXCEPT ![p] = Throw(frame[p])]
  /\ thrown' = TRUE
  /\ UNCHANGED <<config, kernel, durable, crankNumber, bridge, stepHist,
                 reported, blocksDone, commits, outHist, args, restarts, bench, ext>>

\* runBlock resumes after `await controller.step()`, leaves its loop and
\* store.commit() throws
CommitThrows(p) ==
  /\ frame[p].pc = "stepDone"
  /\ Commits(AfterStep(frame[p]))
  /\ reported' = reported + frame[p].stepped
  /\ crankNumber' = IF frame[p].stepped < 1
                      THEN crankNumber
                      ELSE AddStepped(crankNumber, frame[p].stepped)
  /\ frame' = [frame EXCEPT ![p] = Throw(AfterStep(frame[p]))]
  /\ thrown' = TRUE
  /\ UNCHANGED <<config, kernel, durable, bridge, stepHist, blocksDone, commits,
                 outHist, args, restarts, bench, ext>>

\* The runner and one handleMessage call.  The build has blockMode = false;
\* store.commit() is reached only with blockMode on.
InitFail ==
  /\ blockSize \in BlockSizes
  /\ blockMode \in BOOLEAN
  /\ forceReset = TRUE
  /\ initQueue \in 0..MaxBoot
  /\ kernel = [runQueue |-> initQueue, crankNumber |-> 0]
  /\ durable = [runQueue |-> 0, crankNumber |-> 0]
  /\ limitArg = 0
  /\ ceilingArg = 0
  /\ commitArg = blockMode
  /\ stepVals = <<>>
  /\ bench = NoBench
  /\ replay = NoReplay
  /\ sealers = NoSealers
  /\ InitMemory

NextFail ==
  \/ InitialDrain
  \/ ReturnApi
  \/ \E p \in {Main, 1} : EngineStep(p)
  \/ \E p \in {Main, 1} : StepReturn(p)
  \/ \E p \in {Main, 1} : BlockReturn(p)
  \/ \E p \in {Main, 1} : StepThrows(p)
  \/ \E p \in {Main, 1} : CommitThrows(p)
  \/ HandleMessage(1)
  \/ Delivered(1)
  \/ ReturnDeferred(1)
  \/ Settle(1)

SpecFail == InitFail /\ [][NextFail]_vars

(* ----------------------------- runBenchmark --------------------------- *)
KpStates == {"fulfilled", "rejected"}

\* controller.kpStatus(roundResult): the status of the call queued last
KpStatus(b) == b.status[Len(b.status)]

\* mutant: a round that did not finish ends the benchmark
AfterRoundAbort(b, st, steps) ==
  IF st = "unresolved"
    THEN [b EXCEPT !.i = b.rounds]
    ELSE [b EXCEPT !.log = Append(@, st), !.totalSteps = @ + steps, !.i = @ + 1]

\* the loop body after `await runBatch(0, true)`: log the status of the round,
\* totalSteps += steps, i += 1
AfterRound(b, st, steps) ==
  [b EXCEPT !.log = Append(@, st), !.totalSteps = @ + steps, !.i = @ + 1]

\* for (...; i < rounds; ...): queue the call of the next round and start its
\* drain, up to the first await; after the last round sample the crank
\* counter and the stats again and return.  The queued call puts work on the
\* run queue; its result promise is unresolved.
BenchLoop(b) ==
  IF b.i < b.rounds
    THEN /\ \E work \in 1..MaxWork :
              kernel' = [kernel EXCEPT !.runQueue = @ + work]
         /\ bench' = [b EXCEPT !.status = Append(@, "unresolved")]
         /\ Moves(Main, RunBatch(frame[Main], 0, TRUE))
    ELSE /\ bench' = [b EXCEPT !.cranksPost = kernel.crankNumber,
                               !.samplesPost = @ + 1]
         /\ frame' = [frame EXCEPT ![Main].pc = "done"]
         /\ UNCHANGED <<kernel, durable, stepHist, blocksDone, commits>>

\* runBenchmark(rounds) up to its first await: sample the crank counter and
\* the stats, then enter the loop
CallRunBenchmark ==
  /\ frame[Main].pc = "start"
  /\ BenchLoop([bench EXCEPT !.cranksPre = kernel.crankNumber,
                             !.samplesPre = @ + 1])
  /\ UNCHANGED <<config, crankNumber, bridge, reported, outHist, args,
                 restarts, thrown, ext>>

\* runBenchmark resumes after `await runBatch(0, true)`
RoundReturn ==
  /\ frame[Main].pc = "awaitBatch"
  /\ BenchLoop(AfterRound(bench, KpStatus(bench), frame[Main].totalSteps))
  /\ UNCHANGED <<config, crankNumber, bridge, reported, outHist, args,
                 restarts, thrown, ext>>

\* controller.step() during a benchmark: the crank may settle the result
\* promise of a queued call
BenchStep ==
  /\ frame[Main].pc = "awaitStep"
  /\ IF kernel.runQueue > 0
       THEN /\ kernel' = [runQueue |-> kernel.runQueue - 1,
                          crankNumber |-> kernel.crankNumber + 1]
            /\ frame' = [frame EXCEPT ![Main].pc = "stepDone",
                                      ![Main].stepped = 1]
            /\ \/ UNCHANGED bench
               \/ \E k \in 1..Len(bench.status), st \in KpStates :
                    /\ bench.status[k] = "unresolved"
                    /\ bench' = [bench EXCEPT !.status[k] = st]
       ELSE /\ frame' = [frame EXCEPT ![Main].pc = "stepDone",
                                      ![Main].stepped = 0]
            /\ UNCHANGED <<kernel, bench>>
  /\ UNCHANGED <<config, durable, crankNumber, bridge, stepHist, reported,
                 blocksDone, commits, outHist, args, restarts, thrown, ext>>

\* runBenchmark is called on a runner whose queue may hold bootstrap cranks
InitBench ==
  /\ blockSize \in BlockSizes
  /\ blockMode = FALSE
  /\ forceReset = TRUE
  /\ initQueue \in 0..MaxBoot
  /\ kernel = [runQueue |-> initQueue, crankNumber |-> 0]
  /\ durable = [runQueue |-> 0, crankNumber |-> 0]
  /\ limitArg = 0
  /\ ceilingArg = 0
  /\ commitArg = TRUE
  /\ stepVals = <<>>
  /\ bench \in {[NoBench EXCEPT !.rounds = r] : r \in 0..MaxRounds}
  /\ replay = NoReplay
  /\ sealers = NoSealers
  /\ InitMemory

NextBench ==
  \/ CallRunBenchmark
  \/ RoundReturn
  \/ BenchStep
  \/ StepReturn(Main)
  \/ BlockReturn(Main)

SpecBench == InitBench /\ [][NextBench]_vars

\* every ready continuation runs and every step() settles
SpecBenchFair == SpecBench /\ WF_vars(NextBench)

(* ------------------------- replayPastFromDisk ------------------------- *)
\* A line of the log file is a JSON entry or not (file.split('\n') gives an
\* empty string for an empty file and after a final newline).
LineKinds == {"entry", "blank"}

\* file.split('\n'): at least one line
LogFiles == UNION {[1..n -> LineKinds] : n \in 1..MaxCalls}

\* JSON.parse(entry) returns for an entry and throws for anything else
ParseOk(line) == line = "entry"

\* mutant: the loop goes on once handleMessage has been called
AwaitedNot(f) == f.pc # "idle"

\* `await machine.handleMessage(id, command)` is over: the promise fulfilled
Awaited(f) == f.pc = "done"

\* for await (const entry of lines) { JSON.parse(entry); await
\* machine.handleMessage(id, command) }: the stretch from the top of the loop
\* to the first await inside handleMessage, to the throw of JSON.parse, or to
\* the end of the lines.  r.i entries have been handled.
ReplayLoop(r) ==
  IF r.i < Len(r.lines) /\ ParseOk(r.lines[r.i + 1])
    THEN /\ StartMessage(r.i + 1)
         /\ replay' = [r EXCEPT !.i = @ + 1, !.pc = "awaitMessage"]
    ELSE /\ replay' = [r EXCEPT !.pc = IF r.i < Len(r.lines) THEN "failed"
                                                             ELSE "done"]
         /\ UNCHANGED <<config, kernel, durable, crankNumber, bridge, frame,
                        stepHist, reported, blocksDone, commits, outHist, args>>

\* replayPastFromDisk resumes once createMachine() and the file are there
ReplayStart ==
  /\ replay.pc = "start"
  /\ frame[Main].pc = "done"
  /\ ReplayLoop(replay)
  /\ UNCHANGED <<restarts, thrown, bench, sealers>>

\* replayPastFromDisk resumes after `await machine.handleMessage(id, command)`
ReplayResume ==
  /\ replay.pc = "awaitMessage"
  /\ Awaited(frame[replay.i])
  /\ ReplayLoop(replay)
  /\ UNCHANGED <<restarts, thrown, bench, sealers>>

InitReplay ==
  /\ blockSize \in BlockSizes
  /\ blockMode = FALSE
  /\ forceReset = TRUE
  /\ initQueue \in 0..MaxBoot
  /\ kernel = [runQueue |-> initQueue, crankNumber |-> 0]
  /\ durable = [runQueue |-> 0, crankNumber |-> 0]
  /\ limitArg = 0
  /\ ceilingArg = 0
  /\ commitArg = blockMode
  /\ stepVals = <<>>
  /\ bench = NoBench
  /\ replay \in {[NoReplay EXCEPT !.pc = "start", !.lines = l] : l \in LogFiles}
  /\ sealers = NoSealers
  /\ InitMemory

NextReplay ==
  \/ InitialDrain
  \/ ReturnApi
  \/ ReplayStart
  \/ ReplayResume
  \/ \E p \in Procs : EngineStep(p)
  \/ \E p \in Procs : StepReturn(p)
  \/ \E p \in Procs : BlockReturn(p)
  \/ \E c \in Calls : Delivered(c)
  \/ \E c \in Calls : ReturnDeferred(c)
  \/ \E c \in Calls : Settle(c)

SpecReplay == InitReplay /\ [][NextReplay]_vars

(* ------------------------------ makeSealer ---------------------------- *)
\* mutant: the token is an object that exists already
NewObjectReused(n) == 1

\* ({type: 'sealed', label}): an object literal makes a new object
NewObject(n) == n + 1

\* unsealMap.set(key, value)
WeakMapSet(map, key, value) ==
  [k \in DOMAIN map \cup {key} |-> IF k = key THEN value ELSE map[k]]

\* unsealMap.get(key): undefined for a key that was never set
WeakMapGet(map, key) == IF key \in DOMAIN map THEN map[key] ELSE Undefined

\* seal(original, label) of sealer s
Seal(s, original, label) ==
  /\ sealers.objects < MaxObjects
  /\ LET sealed == NewObject(sealers.objects)
     IN sealers' =
          [sealers EXCEPT
             !.unsealMap[s] = WeakMapSet(@, sealed, original),
             !.objects = @ + 1,
             !.calls = Append(@, [sealer |-> s, original |-> original,
                                  label |-> label, sealed |-> sealed])]
  /\ UNCHANGED <<config, kernel, durable, crankNumber, bridge, frame, stepHist,
                 reported, blocksDone, commits, outHist, args, restarts,
                 thrown, bench, replay>>

\* some other code makes an object, such as one that looks like a token
OtherObject ==
  /\ sealers.objects < MaxObjects
  /\ sealers' = [sealers EXCEPT !.objects = @ + 1]
  /\ UNCHANGED <<config, kernel, durable, crankNumber, bridge, frame, stepHist,
                 reported, blocksDone, commits, outHist, args, restarts,
                 thrown, bench, replay>>

\* unseal(sealed) of sealer s, for any value
Unseal(s, sealed) ==
  /\ sealers' =
       [sealers EXCEPT
          !.last = [sealer |-> s, sealed |-> sealed,
                    returned |-> WeakMapGet(sealers.unsealMap[s], sealed)]]
  /\ UNCHANGED <<config, kernel, durable, crankNumber, bridge, frame, stepHist,
                 reported, blocksDone, commits, outHist, args, restarts,
                 thrown, bench, replay>>

InitSealer ==
  /\ blockSize = DefaultBlockSize
  /\ blockMode = FALSE
  /\ forceReset = TRUE
  /\ initQueue = 0
  /\ kernel = [runQueue |-> 0, crankNumber |-> 0]
  /\ durable = [runQueue |-> 0, crankNumber |-> 0]
  /\ limitArg = 0
  /\ ceilingArg = 0
  /\ commitArg = blockMode
  /\ stepVals = <<>>
  /\ bench = NoBench
  /\ replay = NoReplay
  /\ sealers = NoSealers
  /\ InitMemory

NextSealer ==
  \/ \E s \in Sealers, original \in Primitives, label \in Labels :
       Seal(s, original, label)
  \/ OtherObject
  \/ \E s \in Sealers, sealed \in (1..sealers.objects) \cup Primitives :
       Unseal(s, sealed)

SpecSealer == InitSealer /\ [][NextSealer]_vars

(* ============================ claims ================================= *)
BatchOver == frame[Main].pc = "awaitBatch"
InBlock(p) == frame[p].pc \in {"awaitStep", "stepDone"}
CeilDiv(a, b) == (a + b - 1) \div b

\* C1 as stated: runBatch(0, true) on a queue of k units executes k units and
\* commits ceil(k / blockSize) times, once when k = 0.
C1_Original ==
  (BatchOver /\ limitArg = 0 /\ commitArg) =>
    /\ frame[Main].totalSteps = initQueue
    /\ commits = IF initQueue = 0 THEN 1 ELSE CeilDiv(initQueue, blockSize)

\* C1 amended: runBatch(0, true) on a queue of k units, one unit per step,
\* executes exactly k units (the queue is empty afterwards) and commits
\* floor(k / blockSize) + 1
\* times: a queue that is a positive multiple of blockSize costs one more,
\* empty, block and commit than ceil(k / blockSize).
C1_DrainCommits ==
  (BatchOver /\ limitArg = 0 /\ commitArg) =>
    /\ frame[Main].totalSteps = initQueue
    /\ crankNumber = initQueue
    /\ kernel.runQueue = 0
    /\ commits = (initQueue \div blockSize) + 1

C1_Witness ==
  /\ BatchOver /\ limitArg = 0 /\ commitArg
  /\ blockSize = 2 /\ initQueue = 4 /\ commits = 3

\* C2: the step() calls of two handleMessage calls in flight never interleave:
\* no process calls step() between two step() calls of another process.
C2_Serialized == ~interleaved

\* C3: once an outbound callback has resolved the PendingCall of an id, a
\* later callback for that id is reported and performs no second resolve.
C3_ResolvedOnce ==
  \A i \in Ids : resolveCalls[i] <= 1 /\ outCount[i] <= 1 + warned[i]

\* C4: messageResponsePromises holds entries only for ids whose PendingCall
\* has not been resolved yet.
C4_OnlyUnresolved ==
  \A i \in Ids :
    messageResponsePromises[i] # NoEntry =>
      deferred[messageResponsePromises[i]] = Pending

\* C5: message ids are strictly increasing in call order, so no two calls get
\* the same id, whatever the state of the earlier calls.
C5_IdsIncrease ==
  \A c, d \in Started :
    c < d => /\ messageId[c] < messageId[d]
             /\ messageId[d] < messageCount

C5_Witness ==
  /\ Started = Calls
  /\ frame[1].pc = "done"
  /\ frame[MaxCalls].pc = "awaitDeliver"

\* C6: when the engine makes one outbound call per id, each handleMessage call
\* fulfils with the value passed for its own id, under every interleaving.
C6_OwnValue ==
  \A c \in Calls :
    frame[c].pc = "done" =>
      /\ result[c] # Pending
      /\ result[c][1] = messageId[c]
      /\ outCount[messageId[c]] = 1 => result[c] = OutValue(messageId[c], 1)

C6_Witness ==
  /\ interleaved
  /\ \A c \in Calls : frame[c].pc = "done" /\ outCount[messageId[c]] = 1
  /\ result[1] = OutValue(0, 1) /\ result[2] = OutValue(1, 1)

\* C7: with 0 < stepLimit < units available, runBatch(stepLimit, true)
\* executes at least stepLimit and at most stepLimit + blockSize - 1 units.
C7_LimitWindow ==
  (BatchOver /\ commitArg /\ limitArg > 0 /\ limitArg < initQueue) =>
    /\ frame[Main].totalSteps >= limitArg
    /\ frame[Main].totalSteps <= limitArg + blockSize - 1
    /\ crankNumber = frame[Main].totalSteps

C7_Witness ==
  /\ BatchOver /\ commitArg
  /\ limitArg = 3 /\ initQueue = 5 /\ blockSize = 2
  /\ frame[Main].totalSteps = 4

\* C8: after a restart that re-opens the persisted store, crankNumber equals
\* the crank counter of the last successful commit.
C8_ReadBack ==
  (restarts > 0 /\ ~forceReset /\ frame[Main].pc = "start") =>
    crankNumber = durable.crankNumber

StepValsSum == SumUpTo([i \in 0..Len(stepVals) |->
                          IF i = 0 THEN 0 ELSE stepVals[i]], Len(stepVals))

C10_CrankSum ==
  /\ [](/\ crankNumber = reported
        /\ crankNumber = blocksDone
             + SumUpTo([p \in Procs |-> IF InBlock(p) THEN frame[p].actualSteps
                                                      ELSE 0], MaxCalls))
  /\ [][crankNumber' >= crankNumber]_vars

C10_Witness ==
  /\ interleaved
  /\ \A c \in Calls : InBlock(c) /\ frame[c].actualSteps >= 1
  /\ blocksDone >= 1

\* C11: store.commit() is called only at the end of a block: exactly once when
\* a runBlock invocation leaves its step loop with doCommit true, not at all
\* when doCommit is false, and never while the block is still stepping.
C11_CommitAtBlockEnd ==
  [][LET ends == frame[Main].pc # "awaitBlock" /\ frame'[Main].pc = "awaitBlock"
     IN /\ (ends /\ commitArg) =>
             /\ commits' = commits + 1
             /\ durable' = kernel'
        /\ (ends /\ ~commitArg) => commits' = commits /\ durable' = durable
        /\ ~ends => commits' = commits /\ durable' = durable
        /\ (InBlock(Main) /\ frame'[Main].pc = "awaitStep") =>
             /\ commits' = commits
             /\ frame'[Main].actualSteps > frame[Main].actualSteps]_vars

C11_Witness ==
  /\ commitArg /\ blockSize = 2 /\ initQueue = 5
  /\ InBlock(Main) /\ frame[Main].actualSteps = 1
  /\ commits = 2 /\ durable.crankNumber = 4 /\ kernel.crankNumber = 5

\* C12: runBatch issues a further block exactly when the block that just
\* returned reported at least blockSize units and the limit is zero or not
\* yet used up, and returns otherwise; a nonzero stepLimit below blockSize
\* still runs one full block; a queue that is no multiple of blockSize is
\* drained in ceil(k / blockSize) blocks, the last one short, with a commit
\* after each (5 units with blockSize 2: blocks of 2, 2 and 1).
C12_FurtherBlock ==
  /\ [][(frame[Main].pc = "awaitBlock" /\ frame'[Main] # frame[Main]) =>
         LET total == frame[Main].totalSteps + frame[Main].steps
             more == /\ frame[Main].steps >= blockSize
                     /\ (limitArg = 0 \/ limitArg - total > 0)
         IN /\ frame'[Main].totalSteps = total
            /\ more => /\ frame'[Main].pc = "awaitStep"
                       /\ frame'[Main].actualSteps = 0
                       /\ frame'[Main].requestedSteps = blockSize - 1
            /\ ~more => frame'[Main].pc = "awaitBatch"]_vars
  /\ [](BatchOver =>
         /\ \/ frame[Main].steps < blockSize
            \/ limitArg > 0 /\ frame[Main].totalSteps >= limitArg
         /\ (0 < limitArg /\ limitArg < blockSize /\ initQueue >= blockSize) =>
              /\ frame[Main].totalSteps = blockSize
              /\ commitArg => commits = 1
         /\ (limitArg = 0 /\ commitArg /\ initQueue % blockSize # 0) =>
              /\ frame[Main].totalSteps = initQueue
              /\ frame[Main].steps = initQueue % blockSize
              /\ commits = CeilDiv(initQueue, blockSize)
              /\ durable.crankNumber = initQueue)

C12_Witness ==
  /\ BatchOver /\ limitArg = 0 /\ commitArg
  /\ blockSize = 2 /\ initQueue = 5
  /\ frame[Main].totalSteps = 5 /\ frame[Main].steps = 1 /\ commits = 3

\* C13: an outbound callback for an id that has no registered PendingCall is
\* reported (one warning) and discarded: the crank that made it completes, no
\* deferred is resolved or changed, the mapping and messageCount stay as they
\* were.
C13_MissingIdDiscarded ==
  [][\A i \in Ids :
       (outCount'[i] = outCount[i] + 1 /\ messageResponsePromises[i] = NoEntry) =>
         /\ warned'[i] = warned[i] + 1
         /\ \A j \in Ids \ {i} : warned'[j] = warned[j]
         /\ resolveCalls' = resolveCalls
         /\ deferred' = deferred
         /\ result' = result
         /\ messageResponsePromises' = messageResponsePromises
         /\ messageCount' = messageCount
         /\ \E p \in Procs : /\ frame[p].pc = "awaitStep"
                              /\ frame'[p].pc = "stepDone"
                              /\ frame'[p].stepped = 1]_vars

C13_Witness ==
  /\ warned[1] = 1 /\ messageResponsePromises[1] = NoEntry
  /\ messageResponsePromises[0] = 1 /\ deferred[1] = Pending
  /\ frame[1].pc = "stepDone" /\ messageCount = 1

Failed(p) == frame[p].pc = "failed"

\* C14: a failure of controller.step() or store.commit() is not retried and
\* not swallowed: the block and the batch are abandoned (the process calls
\* step() no more), the caller of runBatch or handleMessage gets the failure
\* and no value, the failing stretch commits nothing, and the store holds
\* exactly the units of the blocks that committed.
C14_FailureSurfaces ==
  /\ [](thrown =>
         /\ \E p \in Procs : Failed(p)
         /\ \A p \in Procs : frame[p].pc \in {"failed", "done", "idle"}
         /\ \A c \in Calls : Failed(c) => result[c] = Pending
         /\ ~ENABLED <<NextFail>>_vars)
  /\ [](IF blockMode THEN durable.crankNumber = blocksDone ELSE commits = 0)
  /\ [](durable.crankNumber <= kernel.crankNumber)
  /\ [][(thrown' /\ ~thrown) =>
         /\ commits' = commits
         /\ durable' = durable
         /\ kernel' = kernel]_vars

C14_Witness ==
  /\ thrown /\ Failed(1) /\ blockMode
  /\ frame[1].actualSteps = 1 /\ blockSize = 1
  /\ commits = 2 /\ durable.crankNumber = 1 /\ kernel.crankNumber = 2
  /\ kernel.runQueue = 1 /\ crankNumber = 2

\* C15: handleMessage has registered its deferred under its id when it
\* delivers the message, and starts its drain only in a later stretch, after
\* the delivery; so every outbound callback for that id from the delivery on
\* finds the entry: it resolves the call's deferred and warns of nothing.
C15_RegisteredBeforeDelivery ==
  /\ [](\A c \in Started :
          /\ messageResponsePromises[messageId[c]] = c
          /\ frame[c].pc = "awaitDeliver" =>
               frame[c].totalSteps = 0 /\ frame[c].actualSteps = 0)
  /\ [][\A c \in Calls :
         /\ (frame[c].pc = "idle" /\ frame'[c].pc # "idle") =>
              /\ frame'[c].pc = "awaitDeliver"
              /\ messageResponsePromises'[messageId'[c]] = c
              /\ deferred'[c] = Pending
              /\ kernel'.runQueue > kernel.runQueue
         /\ (frame[c].pc = "awaitDeliver" /\ frame'[c].pc # "awaitDeliver") =>
              frame'[c].pc = "awaitStep"
         /\ (frame[c].pc # "idle"
               /\ outCount'[messageId[c]] = outCount[messageId[c]] + 1) =>
              /\ warned' = warned
              /\ resolveCalls'[messageId[c]] = resolveCalls[messageId[c]] + 1
              /\ deferred'[c] # Pending]_vars

C15_Witness ==
  /\ frame[2].pc = "awaitDeliver" /\ messageId[2] = 1
  /\ outCount[1] = 1 /\ warned[1] = 0
  /\ deferred[2] = OutValue(1, 1)

\* C16: a handleMessage call completes only after its own drain has returned
\* (its last block was short) and a callback for its own id has resolved its
\* deferred, and it completes with the value of that callback (the first one
\* that found the entry); a value once delivered never changes; a call whose
\* id never gets a callback has no value and is never done.
C16_CompletesWithOwnCallback ==
  /\ [](\A c \in Calls :
          /\ frame[c].pc = "done" =>
               /\ resolveCalls[messageId[c]] >= 1
               /\ result[c] = OutValue(messageId[c], warned[messageId[c]] + 1)
               /\ result[c] = deferred[c]
               /\ frame[c].steps < blockSize
          /\ frame[c].pc # "done" => result[c] = Pending
          /\ (c \in Started /\ outCount[messageId[c]] = 0) =>
               /\ frame[c].pc # "done"
               /\ deferred[c] = Pending)
  /\ [][\A c \in Calls :
         /\ result[c] # Pending => result'[c] = result[c]
         /\ (frame'[c].pc = "done" /\ frame[c].pc # "done") =>
              frame[c].pc = "awaitDeferred"
         /\ (frame'[c].pc = "awaitDeferred" /\ frame[c].pc # "awaitDeferred") =>
              frame[c].pc = "awaitBatch"]_vars

C16_Witness ==
  /\ frame[1].pc = "awaitDeferred" /\ outCount[0] = 0 /\ deferred[1] = Pending
  /\ frame[2].pc = "done" /\ result[2] = OutValue(1, 2) /\ warned[1] = 1
  /\ kernel.runQueue = 0

\* C17: runBatch(0, doCommit) on a finite queue that gets no new work
\* returns, having emptied the queue; a block that reported fewer than
\* blockSize units is the last one, and a batch that returned runs no more.
C17_BatchTerminates ==
  /\ (frame[Main].pc = "start" /\ limitArg = 0) ~> (BatchOver /\ kernel.runQueue = 0)
  /\ [][(frame[Main].pc = "awaitBlock" /\ frame[Main].steps < blockSize) =>
         frame'[Main].pc \in {"awaitBlock", "awaitBatch"}]_vars
  /\ [][BatchOver => (BatchOver' /\ kernel' = kernel /\ commits' = commits)]_vars

C17_Witness ==
  /\ BatchOver /\ limitArg = 0 /\ kernel.runQueue = 0
  /\ initQueue = 4 /\ blockSize = 2
  /\ frame[Main].totalSteps = 4 /\ frame[Main].steps = 0

InRound == frame[Main].pc \in {"awaitStep", "stepDone", "awaitBlock", "awaitBatch"}

\* C18: benchmark rounds never overlap: one call is queued per round, and the
\* call of a later round is queued only when the drain of the round before
\* has returned with the run queue empty and its last block committed; the
\* crank counter and the stats are sampled once before the first round and
\* once after the last, and their difference is the units of all rounds.
C18_RoundsInTurn ==
  /\ [](/\ Len(bench.status) = IF InRound THEN bench.i + 1 ELSE bench.i
        /\ bench.i <= bench.rounds
        /\ bench.samplesPre = IF frame[Main].pc = "start" THEN 0 ELSE 1
        /\ bench.samplesPost = IF frame[Main].pc = "done" THEN 1 ELSE 0
        /\ frame[Main].pc = "done" =>
             /\ bench.i = bench.rounds
             /\ Len(bench.status) = bench.rounds
             /\ bench.cranksPost - bench.cranksPre = crankNumber)
  /\ [][Len(bench'.status) # Len(bench.status) =>
         /\ Len(bench'.status) = Len(bench.status) + 1
         /\ bench'.status[Len(bench'.status)] = "unresolved"
         /\ frame'[Main].pc = "awaitStep"
         /\ bench'.i >= 1 =>
              /\ frame[Main].pc = "awaitBatch"
              /\ kernel.runQueue = 0
              /\ durable = kernel
              /\ commits >= bench'.i]_vars

C18_Witness ==
  /\ frame[Main].pc = "done" /\ bench.rounds = 2 /\ Len(bench.status) = 2
  /\ blockSize = 1 /\ commits = 6 /\ bench.cranksPost = 4
  /\ bench.samplesPre = 1 /\ bench.samplesPost = 1

\* C19: a round whose queued call is still unresolved after its drain is
\* logged as such and nothing more: the next round is started all the same,
\* runBenchmark returns after the last round, with one log line per round
\* and the units of all rounds as its total, and nothing was thrown.
C19_UnfinishedRoundGoesOn ==
  /\ [](/\ Len(bench.log) = bench.i
        /\ ~thrown
        /\ frame[Main].pc = "done" =>
             /\ Len(bench.log) = bench.rounds
             /\ bench.totalSteps = crankNumber
             /\ bench.totalSteps = blocksDone)
  /\ [][bench'.i # bench.i =>
         /\ bench'.i = bench.i + 1
         /\ bench'.log = Append(bench.log, bench.status[bench'.i])
         /\ bench'.totalSteps = bench.totalSteps + frame[Main].totalSteps
         /\ frame'[Main].pc = IF bench'.i < bench.rounds THEN "awaitStep"
                                                          ELSE "done"]_vars
  /\ <>(frame[Main].pc = "done")

C19_Witness ==
  /\ frame[Main].pc = "done" /\ bench.rounds = 2
  /\ bench.log = <<"unresolved", "unresolved">>
  /\ bench.status = <<"fulfilled", "unresolved">>
  /\ bench.totalSteps = 4

\* C20: the runner is built with blockMode off, so neither the initial drain
\* nor any handleMessage call calls store.commit(): commits stays zero and
\* the store never holds a crank that was run, however many were run.
C20_NoCommitByBridge ==
  /\ ~blockMode
  /\ \A p \in Procs : ~frame[p].doCommit
  /\ commits = 0
  /\ durable = [runQueue |-> 0, crankNumber |-> 0]

C20_Witness ==
  /\ \A c \in Calls : frame[c].pc = "done"
  /\ kernel.crankNumber = 3 /\ crankNumber = 3 /\ blocksDone = 3
  /\ commits = 0 /\ durable.crankNumber = 0

InFlight == {c \in Calls : frame[c].pc \notin {"idle", "done"}}

\* C21: replayPastFromDisk hands the entries to handleMessage one at a time
\* and in file order: the call for an entry is made only when the call for
\* the entry before has fulfilled, so at most one call is in flight and no
\* two drains interleave; an unparsable line ends the replay; a call whose
\* outbound callback never comes keeps every later entry from being handled.
C21_ReplayInTurn ==
  /\ [](/\ Cardinality(InFlight) <= 1
        /\ ~interleaved
        /\ Started = 1..replay.i
        /\ \A c \in Started :
             /\ messageId[c] = c - 1
             /\ ParseOk(replay.lines[c])
             /\ c < replay.i => frame[c].pc = "done" /\ result[c] # Pending
        /\ replay.pc = "done" =>
             replay.i = Len(replay.lines) /\ InFlight = {}
        /\ replay.pc = "failed" =>
             /\ InFlight = {}
             /\ ~ParseOk(replay.lines[replay.i + 1])
        /\ \A c \in Calls :
             (/\ frame[c].pc = "awaitDeferred" /\ deferred[c] = Pending
              /\ kernel.runQueue = 0) =>
               /\ replay.i = c /\ replay.pc = "awaitMessage"
               /\ ~ENABLED <<NextReplay>>_vars)
  /\ [][replay'.i # replay.i =>
         /\ replay'.i = replay.i + 1
         /\ frame[replay'.i].pc = "idle"
         /\ frame'[replay'.i].pc = "awaitDeliver"
         /\ replay.i >= 1 => frame[replay.i].pc = "done"]_vars

C21_Witness ==
  /\ Len(replay.lines) = 2 /\ replay.i = 1 /\ replay.pc = "awaitMessage"
  /\ ParseOk(replay.lines[2])
  /\ frame[1].pc = "awaitDeferred" /\ deferred[1] = Pending
  /\ kernel.runQueue = 0 /\ frame[2].pc = "idle"

\* the seal calls of sealer s that returned the value v
SealedBy(s, v) ==
  {i \in 1..Len(sealers.calls) :
     sealers.calls[i].sealer = s /\ sealers.calls[i].sealed = v}

\* C22: for every sealer, unseal(seal(x, label)) is x, at once and after any
\* later calls; every seal call returns a token that no earlier call
\* returned and that was no object before; unseal of any value that this
\* sealer's seal did not return (another sealer's token, another object, a
\* value that is no object) is undefined.
C22_SealUnseal ==
  /\ \A i \in 1..Len(sealers.calls) :
       LET call == sealers.calls[i]
       IN /\ WeakMapGet(sealers.unsealMap[call.sealer], call.sealed)
               = call.original
          /\ call.sealed \in 1..sealers.objects
          /\ \A j \in 1..Len(sealers.calls) :
               i # j => sealers.calls[j].sealed # call.sealed
  /\ \A s \in Sealers, v \in (1..sealers.objects) \cup Primitives :
       SealedBy(s, v) = {} => WeakMapGet(sealers.unsealMap[s], v) = Undefined
  /\ sealers.last # <<>> =>
       LET by == SealedBy(sealers.last.sealer, sealers.last.sealed)
       IN /\ by = {} => sealers.last.returned = Undefined
          /\ \A i \in by : sealers.last.returned = sealers.calls[i].original

C22_Witness ==
  /\ Len(sealers.calls) = 2
  /\ sealers.calls[1].sealer = 1 /\ sealers.calls[2].sealer = 1
  /\ sealers.calls[1].original = 0 - 1 /\ sealers.calls[2].original = 0 - 1
  /\ sealers.calls[1].sealed # sealers.calls[2].sealed
  /\ sealers.last # <<>>
  /\ sealers.last = [sealer |-> 1, sealed |-> sealers.calls[2].sealed,
                     returned |-> 0 - 1]

====
